---- MODULE Spec2Model ----
(***************************************************************************)
(* Model of yt_player.py: a terminal front-end that searches with yt-dlp   *)
(* and plays with mpv.  The primary thread is a program counter `pc` that  *)
(* stops at every blocking call (input(), Popen.communicate(),             *)
(* Thread.join(), os.system(), subprocess.run()); the liveness indicator   *)
(* (_progress_bar) is a second thread; SIGINT is an environment action.    *)
(***************************************************************************)
EXTENDS Integers, Sequences, FiniteSets, TLC

VARIABLES
    cmd,        \* entry point selected by the command line (main, 212-268)
    video,      \* args.video / the video argument of play_url, play_queue
    hasYtDlp,   \* shutil.which("yt-dlp") is not None
    hasMpv,     \* shutil.which("mpv") is not None
    isatty,     \* sys.stdout.isatty()
    pc,         \* position of the primary thread
    handlerSet, \* signal.signal(SIGINT, handle_sigint) has run
    exitStatus, \* exit status of the program once pc is "done" or "exited"
    inputLine,  \* text returned by the input() call that just returned
    proc,       \* the captured yt-dlp process of run_yt_dlp_json
    stop_event, \* threading.Event of run_yt_dlp_json
    spinner,    \* position of the _progress_bar thread
    pos,        \* _progress_bar: marker position
    direction,  \* _progress_bar: marker direction
    entries,    \* result list returned by search()
    idx,        \* the parsed selection (1-based)
    start_idx,  \* play_queue's start_idx argument
    i,          \* play_queue's loop variable
    active,     \* number of live child processes, by program
    events,     \* what the primary thread has done so far, in order
    sigints     \* number of SIGINTs delivered after the handler was set

vars == <<cmd, video, hasYtDlp, hasMpv, isatty, pc, handlerSet, exitStatus,
          inputLine, proc, stop_event, spinner, pos, direction, entries, idx,
          start_idx, i, active, events, sigints>>

env == <<cmd, hasYtDlp, hasMpv, isatty>>

----------------------------------------------------------------------------
(* Bounds of the model *)

MaxEntries == 3     \* longest result list returned by the catalog tool
MaxInputLen == 2    \* longest exhaustively enumerated line of user input
MaxSigints == 1     \* SIGINTs delivered in one run

----------------------------------------------------------------------------
(* Text: a line of input is a sequence of one-character strings *)

Chars == {"q", "1", "-", " ", "x"}

RECURSIVE SeqsUpTo(_, _)
SeqsUpTo(S, n) ==
    IF n = 0 THEN {<< >>}
    ELSE LET shorter == SeqsUpTo(S, n - 1)
         IN  shorter \cup {Append(s, c) : s \in shorter, c \in S}

ExplicitInputs ==
    { <<"Q">>, <<"q", "u", "i", "t">>, <<"Q", "U", "I", "T">>,
      <<"Q", "u", "i", "t">>, <<"e", "x", "i", "t">>, <<"E", "X", "I", "T">>,
      <<"E", "x", "i", "T">>, <<" ", "q", "u", "i", "t", " ">>,
      <<"q", "u", "i", "t", "s">>, <<"e", "x", "i">>,
      <<"0">>, <<"2">>, <<"3">>, <<"4">>, <<"5">>, <<"9">>,
      <<" ", "2", " ">>, <<"+", "2">>, <<"+", "3">>, <<"-", "2">>,
      <<"0", "3">>, <<"1", "0">>, <<"1", "_", "0">>, <<"0", "_", "2">>,
      <<"2", "_">>, <<"_", "2">>, <<"1", "_", "_", "0">>, <<"+">>,
      <<"+", "-", "1">>, <<"2", " ", "3">>, <<"2", ".", "0">>,
      <<"v">>, <<"V">>, <<" ", "V", " ">>, <<"a">>, <<"A">>,
      <<"v", "i", "d", "e", "o">>, <<"s", "o", "n", "g">> }

Inputs == ExplicitInputs \cup SeqsUpTo(Chars, MaxInputLen)

Whitespace == {" "}

\* str.strip()
RECURSIVE LStrip(_)
LStrip(s) ==
    IF s # << >> /\ Head(s) \in Whitespace THEN LStrip(Tail(s)) ELSE s

RECURSIVE RStrip(_)
RStrip(s) ==
    IF s # << >> /\ s[Len(s)] \in Whitespace
    THEN RStrip(SubSeq(s, 1, Len(s) - 1))
    ELSE s

Strip(s) == RStrip(LStrip(s))

\* str.lower()
LowerChar(c) ==
    CASE c = "Q" -> "q"  [] c = "U" -> "u"  [] c = "I" -> "i"
      [] c = "T" -> "t"  [] c = "E" -> "e"  [] c = "X" -> "x"
      [] c = "V" -> "v"  [] c = "A" -> "a"  [] OTHER -> c

Lower(s) == [k \in 1..Len(s) |-> LowerChar(s[k])]

\* the set literal {"q", "quit", "exit"}
QuitWords == { <<"q">>, <<"q", "u", "i", "t">>, <<"e", "x", "i", "t">> }

\* the membership test without .lower()
IsQuit_CaseSensitive(s) == s \in QuitWords

\* query.lower() in {"q", "quit", "exit"}, s already stripped
IsQuit(s) == Lower(s) \in QuitWords

\* int(choice): an optional sign, then digits, single underscores allowed
\* between two digits; anything else raises ValueError
Digits == {"0", "1", "2", "3", "4", "5", "6", "7", "8", "9"}

DigitVal(c) ==
    CASE c = "0" -> 0 [] c = "1" -> 1 [] c = "2" -> 2 [] c = "3" -> 3
      [] c = "4" -> 4 [] c = "5" -> 5 [] c = "6" -> 6 [] c = "7" -> 7
      [] c = "8" -> 8 [] c = "9" -> 9

Unsigned(s) == IF s # << >> /\ Head(s) \in {"+", "-"} THEN Tail(s) ELSE s

IntParses(s) ==
    LET b == Unsigned(s)
    IN  /\ b # << >>
        /\ b[1] \in Digits
        /\ b[Len(b)] \in Digits
        /\ \A k \in 1..Len(b) :
              \/ b[k] \in Digits
              \/ b[k] = "_" /\ b[k - 1] \in Digits /\ b[k + 1] \in Digits

RECURSIVE Magnitude(_, _)
Magnitude(b, acc) ==
    IF b = << >> THEN acc
    ELSE IF Head(b) = "_" THEN Magnitude(Tail(b), acc)
    ELSE Magnitude(Tail(b), 10 * acc + DigitVal(Head(b)))

IntValue(s) ==
    IF Head(s) = "-" THEN 0 - Magnitude(Unsigned(s), 0)
    ELSE Magnitude(Unsigned(s), 0)

----------------------------------------------------------------------------
(* Search results *)

None == "None"

\* an entry of the result list: the two keys play_queue reads
Entry == [webpage_url : {None, "w"}, url : {None, "u"}]

ResultSets == UNION {[1..n -> Entry] : n \in 0..MaxEntries}

\* entry.get("webpage_url") or entry.get("url")
EntryUrl(e) == IF e.webpage_url # None THEN e.webpage_url ELSE e.url

\* what yt-dlp wrote to stdout: not JSON, or a JSON object whose "entries"
\* key is absent, null, or a list
NoOutput == [json |-> FALSE, kind |-> "none", list |-> << >>]

Payloads ==
    {NoOutput}
    \cup {[json |-> TRUE, kind |-> k, list |-> << >>] : k \in {"absent", "null"}}
    \cup {[json |-> TRUE, kind |-> "list", list |-> r] : r \in ResultSets}

\* search(): data.get("entries") or []
EntriesOf(out) == IF out.kind = "list" THEN out.list ELSE << >>

ReturnCodes == {0, 1, 2}

----------------------------------------------------------------------------
(* The log of the primary thread *)

Ev(t) == [t |-> t, i |-> 0]
EvI(t, k) == [t |-> t, i |-> k]

NoProc == [st |-> "none", rc |-> 0, out |-> NoOutput, err |-> ""]

NoChildren == [ytdlp |-> 0, mpv |-> 0, clear |-> 0]

Commands == {"interactive", "quick", "search", "play_search", "play_url"}

Init ==
    /\ cmd \in Commands
    /\ video \in (IF cmd \in {"quick", "play_search", "play_url"}
                 THEN BOOLEAN ELSE {FALSE})
    /\ hasYtDlp \in BOOLEAN
    /\ hasMpv \in BOOLEAN
    /\ isatty \in BOOLEAN
    /\ pc = "start"
    /\ handlerSet = FALSE
    /\ exitStatus = 0
    /\ inputLine = << >>
    /\ proc = NoProc
    /\ stop_event = FALSE
    /\ spinner = "none"
    /\ pos = 0
    /\ direction = 1
    /\ entries = << >>
    /\ idx = 0
    /\ start_idx = 0
    /\ i = 0
    /\ active = NoChildren
    /\ events = << >>
    /\ sigints = 0

----------------------------------------------------------------------------
(* Fragments shared by the actions *)

bar == <<pos, direction>>

\* sys.exit(code) after printing evs
Exit(code, evs) ==
    /\ pc' = "exited"
    /\ exitStatus' = code
    /\ events' = events \o evs

\* return from the command to the end of main after printing evs
Return(evs) ==
    /\ pc' = "done"
    /\ exitStatus' = 0
    /\ events' = events \o evs

Have(name) == IF name = "yt-dlp" THEN hasYtDlp ELSE hasMpv

MissingEv(name) == EvI("missing_tool", IF name = "yt-dlp" THEN 1 ELSE 2)

\* a run of require_tool calls: the first tool that shutil.which cannot find
RECURSIVE FirstMissing(_)
FirstMissing(names) ==
    IF names = << >> THEN ""
    ELSE IF ~Have(Head(names)) THEN Head(names)
    ELSE FirstMissing(Tail(names))

\* require_tool: print the error and the install hint, sys.exit(1)
require_tool(names) == Exit(1, <<MissingEv(FirstMissing(names))>>)

\* run_yt_dlp_json up to proc.communicate(): Popen, Event, spinner thread
RunYtDlp(pre) ==
    /\ proc' = [NoProc EXCEPT !.st = "running"]
    /\ active' = [active EXCEPT !.ytdlp = @ + 1]
    /\ stop_event' = FALSE
    /\ spinner' = IF isatty THEN "test" ELSE "none"
    /\ events' = events \o pre \o <<Ev("ytdlp")>>
    /\ pc' = "communicate"
    /\ UNCHANGED exitStatus

\* play_url up to the blocking subprocess.run: base is the child table
\* before the call, k the index of the entry, blockpc where run() blocks
play_url(pre, k, blockpc, base) ==
    IF ~Have("mpv")
    THEN /\ Exit(1, pre \o <<MissingEv("mpv")>>)
         /\ active' = base
    ELSE /\ events' = events \o pre \o <<EvI("mpv", k)>>
         /\ active' = [base EXCEPT !.mpv = @ + 1]
         /\ pc' = blockpc
         /\ UNCHANGED exitStatus

\* the upper guard written with > instead of >=
InBounds_OffByOne(start, n) == ~(start < 0 \/ start > n)

\* play_queue: start_idx < 0 or start_idx >= len(entries) is a no-op
InBounds(start, n) == ~(start < 0 \/ start >= n)

\* the lower guard written with idx < 0 instead of idx < 1
InRange_FromZero(k, n) == ~(k < 0 \/ k > n)

\* the selection check: idx < 1 or idx > len(entries) is out of range
InRange(k, n) == ~(k < 1 \/ k > n)

\* sys.exit(1) whatever the tool returned
ExitCodeOnFailure_One(p) == 1

\* sys.exit(proc.returncode)
ExitCodeOnFailure(p) == p.rc

----------------------------------------------------------------------------
(* main: handler registration, argument parsing, dispatch *)

MainStart ==
    /\ pc = "start"
    /\ handlerSet' = TRUE
    /\ pc' = "dispatch"
    /\ UNCHANGED <<env, video, exitStatus, inputLine, proc, stop_event,
                   spinner, bar, entries, idx, start_idx, i, active, events,
                   sigints>>

\* interactive() up to the query prompt
Interactive ==
    /\ pc = "dispatch"
    /\ cmd = "interactive"
    /\ IF FirstMissing(<<"yt-dlp", "mpv">>) # ""
       THEN require_tool(<<"yt-dlp", "mpv">>)
       ELSE /\ pc' = "input_query"
            /\ events' = events \o <<Ev("hint"), Ev("prompt_query")>>
            /\ UNCHANGED exitStatus
    /\ UNCHANGED <<env, video, handlerSet, inputLine, proc, stop_event,
                   spinner, bar, entries, idx, start_idx, i, active, sigints>>

\* input() returns a line
ReadInput ==
    /\ pc \in {"input_query", "input_choice", "input_mode"}
    /\ \E s \in Inputs : inputLine' = s
    /\ pc' = CASE pc = "input_query" -> "eval_query"
               [] pc = "input_choice" -> "eval_choice"
               [] pc = "input_mode" -> "eval_mode"
    /\ UNCHANGED <<env, video, handlerSet, exitStatus, proc, stop_event,
                   spinner, bar, entries, idx, start_idx, i, active, events,
                   sigints>>

\* interactive(): the query, then search() up to communicate()
EvalQuery ==
    /\ pc = "eval_query"
    /\ LET query == Strip(inputLine)
       IN  IF IsQuit(query)
           THEN Return(<< >>) /\ UNCHANGED <<proc, stop_event, spinner, active>>
           ELSE IF query = << >>
           THEN /\ Return(<<Ev("no_query")>>)
                /\ UNCHANGED <<proc, stop_event, spinner, active>>
           ELSE RunYtDlp(<< >>)
    /\ inputLine' = << >>
    /\ UNCHANGED <<env, video, handlerSet, bar, entries, idx, start_idx, i,
                   sigints>>

\* main: -s/--search up to communicate()
QuickSearch ==
    /\ pc = "dispatch"
    /\ cmd = "quick"
    /\ IF FirstMissing(<<"yt-dlp", "mpv">>) # ""
       THEN /\ require_tool(<<"yt-dlp", "mpv">>)
            /\ UNCHANGED <<proc, stop_event, spinner, active>>
       ELSE RunYtDlp(<< >>)
    /\ UNCHANGED <<env, video, handlerSet, inputLine, bar, entries, idx,
                   start_idx, i, sigints>>

\* main: the search command up to communicate()
SearchCmd ==
    /\ pc = "dispatch"
    /\ cmd = "search"
    /\ IF FirstMissing(<<"yt-dlp">>) # ""
       THEN /\ require_tool(<<"yt-dlp">>)
            /\ UNCHANGED <<proc, stop_event, spinner, active>>
       ELSE RunYtDlp(<< >>)
    /\ UNCHANGED <<env, video, handlerSet, inputLine, bar, entries, idx,
                   start_idx, i, sigints>>

\* main: the play command up to communicate() or subprocess.run()
PlayCmd ==
    /\ pc = "dispatch"
    /\ cmd \in {"play_search", "play_url"}
    /\ IF FirstMissing(<<"yt-dlp">>) # ""
       THEN /\ require_tool(<<"yt-dlp">>)
            /\ UNCHANGED <<proc, stop_event, spinner, active>>
       ELSE IF cmd = "play_search"
       THEN RunYtDlp(<< >>)
       ELSE /\ play_url(<< >>, 0, "play_wait", active)
            /\ UNCHANGED <<proc, stop_event, spinner>>
    /\ UNCHANGED <<env, video, handlerSet, inputLine, bar, entries, idx,
                   start_idx, i, sigints>>

----------------------------------------------------------------------------
(* run_yt_dlp_json after Popen, and the indicator thread *)

\* proc.communicate() returns when yt-dlp has exited; stop_event.set()
Communicate ==
    /\ pc = "communicate"
    /\ proc.st = "running"
    /\ \E rc \in ReturnCodes :
         \E out \in (IF rc = 0 THEN Payloads
                     ELSE {NoOutput,
                           [json |-> TRUE, kind |-> "list",
                            list |-> <<[webpage_url |-> "w", url |-> None]>>]}) :
           \E err \in (IF rc = 0 THEN {""} ELSE {"", "ERROR"}) :
             proc' = [st |-> "exited", rc |-> rc, out |-> out, err |-> err]
    /\ active' = [active EXCEPT !.ytdlp = @ - 1]
    /\ stop_event' = TRUE
    /\ pc' = "join"
    /\ UNCHANGED <<env, video, handlerSet, exitStatus, inputLine, spinner,
                   bar, entries, idx, start_idx, i, events, sigints>>

\* spinner_thread.join(), skipped when no thread was started
Join ==
    /\ pc = "join"
    /\ spinner \in {"none", "finished", "crashed"}
    /\ pc' = "returncode"
    /\ UNCHANGED <<env, video, handlerSet, exitStatus, inputLine, proc,
                   stop_event, spinner, bar, entries, idx, start_idx, i,
                   active, events, sigints>>

\* the exit-code check and json.loads, then search()'s normalisation
CheckResult ==
    /\ pc = "returncode"
    /\ IF proc.rc # 0
       THEN /\ Exit(ExitCodeOnFailure(proc),
                    <<Ev("yt_failed")>>
                    \o (IF proc.err # "" THEN <<Ev("stderr")>> ELSE << >>))
            /\ UNCHANGED entries
       ELSE IF ~proc.out.json
       THEN /\ Exit(1, <<Ev("parse"), Ev("parse_failed")>>)
            /\ UNCHANGED entries
       ELSE /\ entries' = EntriesOf(proc.out)
            /\ events' = Append(events, Ev("parse"))
            /\ pc' = "searched"
            /\ UNCHANGED exitStatus
    /\ UNCHANGED <<env, video, handlerSet, inputLine, proc, stop_event,
                   spinner, bar, idx, start_idx, i, active, sigints>>

width == 20

\* the reversal test written with width instead of width - 1
Bounce_PastEnd(p, d) ==
    LET np == p + d
    IN  <<np, IF np = 0 \/ np = width THEN 0 - d ELSE d>>

\* _progress_bar: pos += direction, then the reversal test
Bounce(p, d) ==
    LET np == p + d
    IN  <<np, IF np = 0 \/ np = width - 1 THEN 0 - d ELSE d>>

Alive == pc \notin {"done", "exited"}

\* _progress_bar: the while test; when the flag is set, the final erase and
\* the end of the thread, with which its locals pos and direction are gone
ProgressTest ==
    /\ Alive
    /\ spinner = "test"
    /\ IF stop_event
       THEN spinner' = "finished" /\ pos' = 0 /\ direction' = 1
       ELSE spinner' = "paint" /\ UNCHANGED bar
    /\ UNCHANGED <<env, video, pc, handlerSet, exitStatus, inputLine, proc,
                   stop_event, entries, idx, start_idx, i, active,
                   events, sigints>>

\* _progress_bar: one repaint; bar[pos] raises IndexError outside the list
ProgressPaint ==
    /\ Alive
    /\ spinner = "paint"
    /\ IF pos \in (0 - width)..(width - 1)
       THEN /\ pos' = Bounce(pos, direction)[1]
            /\ direction' = Bounce(pos, direction)[2]
            /\ spinner' = "test"
       ELSE /\ spinner' = "crashed"
            /\ UNCHANGED bar
    /\ UNCHANGED <<env, video, pc, handlerSet, exitStatus, inputLine, proc,
                   stop_event, entries, idx, start_idx, i, active, events,
                   sigints>>

----------------------------------------------------------------------------
(* What each command does with the result list *)

\* interactive(): no results, or the listing and the selection prompt
InteractiveResults ==
    /\ pc = "searched"
    /\ cmd = "interactive"
    /\ IF entries = << >>
       THEN Return(<<Ev("no_results")>>)
       ELSE /\ pc' = "input_choice"
            /\ events' = events \o <<Ev("listing"), Ev("prompt_choice")>>
            /\ UNCHANGED exitStatus
    /\ UNCHANGED <<env, video, handlerSet, inputLine, proc, stop_event,
                   spinner, bar, entries, idx, start_idx, i, active, sigints>>

\* main, -s/--search: no results, or the listing and the selection prompt
QuickResults ==
    /\ pc = "searched"
    /\ cmd = "quick"
    /\ IF entries = << >>
       THEN Return(<<Ev("no_results")>>)
       ELSE /\ pc' = "input_choice"
            /\ events' = events \o <<Ev("listing"), Ev("prompt_choice")>>
            /\ UNCHANGED exitStatus
    /\ UNCHANGED <<env, video, handlerSet, inputLine, proc, stop_event,
                   spinner, bar, entries, idx, start_idx, i, active, sigints>>

\* main, search command: no results, or the listing
SearchResults ==
    /\ pc = "searched"
    /\ cmd = "search"
    /\ IF entries = << >>
       THEN Return(<<Ev("no_results")>>)
       ELSE Return(<<Ev("listing")>>)
    /\ UNCHANGED <<env, video, handlerSet, inputLine, proc, stop_event,
                   spinner, bar, entries, idx, start_idx, i, active, sigints>>

\* main, play --search: the first result's URL, then play_url
PlayResolved ==
    /\ pc = "searched"
    /\ cmd = "play_search"
    /\ IF entries = << >>
       THEN Return(<<Ev("no_results")>>) /\ UNCHANGED active
       ELSE IF EntryUrl(entries[1]) = None
       THEN Return(<<Ev("missing_url")>>) /\ UNCHANGED active
       ELSE play_url(<< >>, 0, "play_wait", active)
    /\ UNCHANGED <<env, video, handlerSet, inputLine, proc, stop_event,
                   spinner, bar, entries, idx, start_idx, i, sigints>>

\* main, play: subprocess.run(mpv) returns, then main returns
PlayDone ==
    /\ pc = "play_wait"
    /\ \E rc \in {0, 1} :
         Return(<<EvI("mpv_exit", rc)>>)
    /\ active' = [active EXCEPT !.mpv = @ - 1]
    /\ UNCHANGED <<env, video, handlerSet, inputLine, proc, stop_event,
                   spinner, bar, entries, idx, start_idx, i, sigints>>

\* the reading of the selection shared by interactive() and main: what the
\* line is taken for
Selection(line, n) ==
    LET choice == Strip(line)
    IN  IF IsQuit(choice) THEN "quit"
        ELSE IF choice = << >> THEN "blank"
        ELSE IF ~IntParses(choice) THEN "invalid_number"
        ELSE IF ~InRange(IntValue(choice), n) THEN "out_of_range"
        ELSE "ok"

\* interactive(): the selection, then the play-mode prompt
EvalChoice ==
    /\ pc = "eval_choice"
    /\ cmd = "interactive"
    /\ LET sel == Selection(inputLine, Len(entries))
       IN  IF sel \in {"quit", "blank"}
           THEN Return(<< >>) /\ UNCHANGED idx
           ELSE IF sel \in {"invalid_number", "out_of_range"}
           THEN Return(<<Ev(sel)>>) /\ UNCHANGED idx
           ELSE /\ idx' = IntValue(Strip(inputLine))
                /\ pc' = "input_mode"
                /\ events' = Append(events, Ev("prompt_mode"))
                /\ UNCHANGED exitStatus
    /\ inputLine' = << >>
    /\ UNCHANGED <<env, video, handlerSet, proc, stop_event, spinner, bar,
                   entries, start_idx, i, active, sigints>>

\* main, -s/--search: the selection, then the call of play_queue
QuickChoice ==
    /\ pc = "eval_choice"
    /\ cmd = "quick"
    /\ LET sel == Selection(inputLine, Len(entries))
       IN  IF sel \in {"quit", "blank"}
           THEN Return(<< >>) /\ UNCHANGED <<idx, start_idx>>
           ELSE IF sel \in {"invalid_number", "out_of_range"}
           THEN Return(<<Ev(sel)>>) /\ UNCHANGED <<idx, start_idx>>
           ELSE /\ idx' = IntValue(Strip(inputLine))
                /\ start_idx' = idx' - 1
                /\ pc' = "pq_call"
                /\ UNCHANGED <<exitStatus, events>>
    /\ inputLine' = << >>
    /\ UNCHANGED <<env, video, handlerSet, proc, stop_event, spinner, bar,
                   entries, i, active, sigints>>

\* interactive(): the play mode, then the call of play_queue
EvalMode ==
    /\ pc = "eval_mode"
    /\ LET mode == Lower(Strip(inputLine))
       IN  IF IsQuit(mode)
           THEN Return(<< >>) /\ UNCHANGED <<video, start_idx>>
           ELSE /\ video' = (mode = <<"v">>)
                /\ start_idx' = idx - 1
                /\ pc' = "pq_call"
                /\ UNCHANGED <<exitStatus, events>>
    /\ inputLine' = << >>
    /\ UNCHANGED <<env, handlerSet, proc, stop_event, spinner, bar, entries,
                   idx, i, active, sigints>>

----------------------------------------------------------------------------
(* play_queue *)

\* the two guards and the autoplay banner
PlayQueueEnter ==
    /\ pc = "pq_call"
    /\ IF entries = << >>
       THEN Return(<< >>) /\ UNCHANGED i
       ELSE IF ~InBounds(start_idx, Len(entries))
       THEN Return(<< >>) /\ UNCHANGED i
       ELSE /\ events' = Append(events, Ev("autoplay"))
            /\ i' = start_idx
            /\ pc' = "pq_loop"
            /\ UNCHANGED exitStatus
    /\ UNCHANGED <<env, video, handlerSet, inputLine, proc, stop_event,
                   spinner, bar, entries, idx, start_idx, active, sigints>>

\* range(start_idx, len(entries)) is exhausted: play_queue returns
QueueExhausted ==
    /\ pc = "pq_loop"
    /\ i >= Len(entries)
    /\ Return(<< >>)
    /\ UNCHANGED <<env, video, handlerSet, inputLine, proc, stop_event,
                   spinner, bar, entries, idx, start_idx, i, active, sigints>>

\* an entry without URL is met but the loop variable is not advanced
QueueSkip_NoAdvance ==
    /\ pc = "pq_loop"
    /\ i < Len(entries)
    /\ EntryUrl(entries[i + 1]) = None
    /\ UNCHANGED vars

\* if not url: continue
QueueSkip ==
    /\ pc = "pq_loop"
    /\ i < Len(entries)
    /\ EntryUrl(entries[i + 1]) = None
    /\ i' = i + 1
    /\ UNCHANGED <<env, video, pc, handlerSet, exitStatus, inputLine, proc,
                   stop_event, spinner, bar, entries, idx, start_idx, active,
                   events, sigints>>

\* clear_screen(), the banner, play_url: up to the first blocking call,
\* os.system("clear") on a terminal, subprocess.run(mpv) otherwise
QueuePlay ==
    /\ pc = "pq_loop"
    /\ i < Len(entries)
    /\ EntryUrl(entries[i + 1]) # None
    /\ IF isatty
       THEN /\ events' = Append(events, EvI("clear", i))
            /\ active' = [active EXCEPT !.clear = @ + 1]
            /\ pc' = "clearing"
            /\ UNCHANGED exitStatus
       ELSE play_url(<<EvI("now_playing", i)>>, i, "playing", active)
    /\ UNCHANGED <<env, video, handlerSet, inputLine, proc, stop_event,
                   spinner, bar, entries, idx, start_idx, i, sigints>>

\* os.system returns; the banner; play_url up to subprocess.run(mpv)
ClearDone ==
    /\ pc = "clearing"
    /\ play_url(<<EvI("now_playing", i)>>, i, "playing",
                [active EXCEPT !.clear = @ - 1])
    /\ UNCHANGED <<env, video, handlerSet, inputLine, proc, stop_event,
                   spinner, bar, entries, idx, start_idx, i, sigints>>

\* the player is started without waiting for it: the call returns while
\* mpv is still running
PlayerExit_NoWait ==
    /\ pc = "playing"
    /\ i' = i + 1
    /\ pc' = "pq_loop"
    /\ UNCHANGED <<env, video, handlerSet, exitStatus, inputLine, proc,
                   stop_event, spinner, bar, entries, idx, start_idx, active,
                   events, sigints>>

\* subprocess.run(mpv) returns with any status; the loop advances
PlayerExit ==
    /\ pc = "playing"
    /\ \E rc \in {0, 1} :
         events' = Append(events, EvI("mpv_exit", rc))
    /\ active' = [active EXCEPT !.mpv = @ - 1]
    /\ i' = i + 1
    /\ pc' = "pq_loop"
    /\ UNCHANGED <<env, video, handlerSet, exitStatus, inputLine, proc,
                   stop_event, spinner, bar, entries, idx, start_idx, sigints>>

----------------------------------------------------------------------------
(* SIGINT *)

\* A SIGINT delivered to the program once handle_sigint is installed.  The
\* handler runs in the primary thread, prints the farewell and raises
\* SystemExit(0), which nothing catches: subprocess.run kills mpv on the way
\* out, the Popen of run_yt_dlp_json is left alone, and the daemon indicator
\* thread is neither signalled nor joined.
Sigint ==
    /\ handlerSet
    /\ Alive
    /\ pc # "clearing"
    /\ sigints < MaxSigints
    /\ sigints' = sigints + 1
    /\ Exit(0, <<Ev("farewell")>>)
    /\ active' = IF pc \in {"playing", "play_wait"}
                 THEN [active EXCEPT !.mpv = @ - 1]
                 ELSE active
    /\ UNCHANGED <<env, video, handlerSet, inputLine, proc, stop_event,
                   spinner, bar, entries, idx, start_idx, i>>

\* A SIGINT delivered while the primary thread is inside os.system: the C
\* library's system() keeps SIGINT set to SIG_IGN in the caller until the
\* command has finished, so the signal is discarded and handle_sigint never
\* runs.
SigintDuringClear ==
    /\ handlerSet
    /\ pc = "clearing"
    /\ sigints < MaxSigints
    /\ sigints' = sigints + 1
    /\ UNCHANGED <<env, video, pc, handlerSet, exitStatus, inputLine, proc,
                   stop_event, spinner, bar, entries, idx, start_idx, i,
                   active, events>>

----------------------------------------------------------------------------
(* The program *)

Next ==
    \/ MainStart
    \/ Interactive
    \/ ReadInput
    \/ EvalQuery
    \/ QuickSearch
    \/ SearchCmd
    \/ PlayCmd
    \/ Communicate
    \/ Join
    \/ CheckResult
    \/ ProgressTest
    \/ ProgressPaint
    \/ InteractiveResults
    \/ QuickResults
    \/ SearchResults
    \/ PlayResolved
    \/ PlayDone
    \/ EvalChoice
    \/ QuickChoice
    \/ EvalMode
    \/ PlayQueueEnter
    \/ QueueExhausted
    \/ QueueSkip
    \/ QueuePlay
    \/ ClearDone
    \/ PlayerExit
    \/ Sigint
    \/ SigintDuringClear

Spec == Init /\ [][Next]_vars

----------------------------------------------------------------------------
(* play_queue on its own: any result list and any start index, in the      *)
(* situation its two callers establish (handler installed, mpv resolved by *)
(* require_tool, nothing printed by play_queue yet).                       *)

InitQueue ==
    /\ cmd \in {"interactive", "quick"}
    /\ video \in BOOLEAN
    /\ hasYtDlp = TRUE
    /\ hasMpv = TRUE
    /\ isatty \in BOOLEAN
    /\ pc = "pq_call"
    /\ handlerSet = TRUE
    /\ exitStatus = 0
    /\ inputLine = << >>
    /\ proc = NoProc
    /\ stop_event = FALSE
    /\ spinner = "none"
    /\ pos = 0
    /\ direction = 1
    /\ entries \in ResultSets
    /\ idx = 0
    /\ start_idx \in (0 - 1)..(MaxEntries + 1)
    /\ i = 0
    /\ active = NoChildren
    /\ events = << >>
    /\ sigints = 0

NextQueue ==
    \/ PlayQueueEnter
    \/ QueueExhausted
    \/ QueueSkip
    \/ QueuePlay
    \/ ClearDone
    \/ PlayerExit
    \/ Sigint
    \/ SigintDuringClear

SpecQueue == InitQueue /\ [][NextQueue]_vars

\* The primary thread runs whenever it is not blocked; `clear` terminates;
\* every media-player invocation eventually exits.
FairQueue ==
    /\ SpecQueue
    /\ WF_vars(PlayQueueEnter)
    /\ WF_vars(QueueExhausted)
    /\ WF_vars(QueueSkip)
    /\ WF_vars(QueuePlay)
    /\ WF_vars(ClearDone)
    /\ WF_vars(PlayerExit)

----------------------------------------------------------------------------
(* Properties *)

IsPrefix(s, t) == Len(s) <= Len(t) /\ SubSeq(t, 1, Len(s)) = s

EventTypes == {events[k].t : k \in 1..Len(events)}

\* the indices handed to the media player so far, in order
PlayedIdx ==
    LET m == SelectSeq(events, LAMBDA e : e.t = "mpv")
    IN  [k \in 1..Len(m) |-> m[k].i]

HasUrl(e) == e.webpage_url # None \/ e.url # None

RECURSIVE PlayableFrom(_, _)
PlayableFrom(es, k) ==
    IF k >= Len(es) THEN << >>
    ELSE (IF HasUrl(es[k + 1]) THEN <<k>> ELSE << >>) \o PlayableFrom(es, k + 1)

StartValid == 0 <= start_idx /\ start_idx < Len(entries)

ExpectedIdx == IF StartValid THEN PlayableFrom(entries, start_idx) ELSE << >>

\* C1: play_queue hands to the media player exactly the entries at indices
\* start_idx..N-1 that have a URL, in increasing order and each once: what
\* has been played is at every moment an initial part of that list, and is
\* the whole list when play_queue returns; with an empty list or a start
\* index outside [0, N) play_queue prints nothing, launches nothing and
\* returns.  (A SIGINT ends the program instead, see C4.)
C1_QueueVisitsInOrder ==
    /\ IsPrefix(PlayedIdx, ExpectedIdx)
    /\ pc = "done" => PlayedIdx = ExpectedIdx
    /\ ~StartValid =>
          /\ EventTypes \subseteq {"farewell"}
          /\ active = NoChildren
          /\ pc \in {"pq_call", "done", "exited"}
          /\ sigints = 0 => pc \in {"pq_call", "done"}

C1_Witness ==
    /\ pc = "done"
    /\ Len(entries) = 3
    /\ start_idx = 1
    /\ ~HasUrl(entries[2])
    /\ PlayedIdx = <<2>>

QueuePcs == {"pq_loop", "clearing", "playing"}

\* C9: play_queue always reaches a terminal state, done (it returned) or
\* aborted (SIGINT, exit status 0); meanwhile the cursor never moves back and
\* advances one entry at a time, and a media player that exits, with status
\* zero or not, is followed by the next entry, never by the same one.
C9_QueueTerminates ==
    /\ (pc = "pq_call") ~>
          (pc = "done" \/ (pc = "exited" /\ sigints > 0 /\ exitStatus = 0))
    /\ [][(pc \in QueuePcs /\ pc' \in QueuePcs) => (i' = i \/ i' = i + 1)]_vars
    /\ [][pc = "playing" /\ pc' # "exited" => pc' = "pq_loop" /\ i' = i + 1]_vars

C9_Witness ==
    /\ pc = "done"
    /\ \E k \in 1..Len(events) :
          /\ events[k] = EvI("mpv_exit", 1)
          /\ \E j \in (k + 1)..Len(events) : events[j].t = "mpv"

\* C7: at most one child process of the program is alive at any time.
C7_OneSubprocess == active.ytdlp + active.mpv + active.clear <= 1

C7_Witness ==
    /\ pc = "playing"
    /\ proc.st = "exited"
    /\ active.mpv = 1
    /\ Len(PlayedIdx) = 2

\* C10: whenever the indicator repaints, 0 <= pos <= 19; pos changes by one
\* cell per repaint; the direction reverses exactly when the marker arrives
\* at cell 0 or cell 19.
C10_MarkerBounces ==
    /\ [](spinner = "paint" => (0 <= pos /\ pos <= 19))
    /\ [][spinner = "paint" /\ spinner' = "test" =>
            /\ (pos' = pos + 1 \/ pos' = pos - 1)
            /\ pos' = pos + direction
            /\ (direction' # direction) <=> (pos' = 0 \/ pos' = 19)]_vars

C10_Witness == spinner = "paint" /\ pos = 1 /\ direction = 0 - 1

\* the spellings of the quit words that the model's inputs contain
QuitSpellings ==
    { <<"q">>, <<"Q">>, <<"q", "u", "i", "t">>, <<"Q", "U", "I", "T">>,
      <<"Q", "u", "i", "t">>, <<"e", "x", "i", "t">>, <<"E", "X", "I", "T">>,
      <<"E", "x", "i", "T">> }

\* C3: when the line read at the query, selection or play-mode prompt is a
\* quit word in any letter case, the command returns at once: nothing is
\* printed, no prompt is shown, no yt-dlp and no mpv is launched.  (A SIGINT
\* arriving before the line is looked at ends the program instead, see C4.)
C3_QuitEndsCommand ==
    [][(/\ pc \in {"eval_query", "eval_choice", "eval_mode"}
        /\ inputLine \in QuitSpellings
        /\ sigints' = sigints)
       => (/\ pc' = "done"
           /\ exitStatus' = 0
           /\ events' = events
           /\ active' = active
           /\ proc' = proc)]_vars

C3_Witness ==
    /\ pc = "done"
    /\ events # << >>
    /\ events[Len(events)].t = "prompt_mode"

\* the selection typed at the prompt is an integer in [1, N]
Accepted(line, n) ==
    /\ IntParses(Strip(line))
    /\ 1 <= IntValue(Strip(line))
    /\ IntValue(Strip(line)) <= n

\* C2 as stated: an integer in [1, N] is accepted with start index
\* value - 1; every other line is answered with a message and a return.
C2_EveryOtherInputReported ==
    [][(pc = "eval_choice" /\ sigints' = sigints)
       => IF Accepted(inputLine, Len(entries))
          THEN /\ idx' = IntValue(Strip(inputLine))
               /\ \/ cmd = "quick" /\ pc' = "pq_call" /\ start_idx' = idx' - 1
                  \/ cmd = "interactive" /\ pc' = "input_mode"
          ELSE /\ pc' = "done"
               /\ \/ events' = Append(events, Ev("invalid_number"))
                  \/ events' = Append(events, Ev("out_of_range"))]_vars

\* C2, amended: an integer in [1, N] is accepted, and play_queue is called
\* with start index value - 1, directly in quick-search mode and after the
\* play-mode prompt in interactive mode unless a quit word is entered there;
\* a blank line or a quit word returns silently; every other line is answered
\* with one message and a return; no rejected line starts playback.
C2_SelectionValidated ==
    /\ [][(pc = "eval_choice" /\ sigints' = sigints)
          => IF Accepted(inputLine, Len(entries))
             THEN /\ idx' = IntValue(Strip(inputLine))
                  /\ \/ cmd = "quick" /\ pc' = "pq_call"
                        /\ start_idx' = idx' - 1
                     \/ cmd = "interactive" /\ pc' = "input_mode"
                  /\ active' = active
             ELSE /\ pc' = "done"
                  /\ exitStatus' = 0
                  /\ active' = active
                  /\ IF Strip(inputLine) = << >>
                        \/ Strip(inputLine) \in QuitSpellings
                     THEN events' = events
                     ELSE \/ events' = Append(events, Ev("invalid_number"))
                          \/ events' = Append(events, Ev("out_of_range"))]_vars
    /\ [][(pc = "eval_mode" /\ sigints' = sigints /\ pc' # "done")
          => pc' = "pq_call" /\ start_idx' = idx - 1 /\ idx' = idx]_vars
    /\ [](pc \in {"input_mode", "eval_mode"} => InRange(idx, Len(entries)))

C2_Witness ==
    /\ cmd = "quick"
    /\ pc = "playing"
    /\ idx = 2
    /\ start_idx = 1
    /\ PlayedIdx = <<1>>

\* C5: once the captured yt-dlp has exited with a nonzero code c, its output
\* is never parsed and no listing, prompt or media player follows; the
\* program prints the failure line, then the captured stderr text if there
\* is any, and terminates with status c.  (A SIGINT arriving before that
\* ends the program with status 0 instead, see C4.)
C5_FailureIsFatal ==
    (proc.st = "exited" /\ proc.rc # 0) =>
        /\ pc \in {"join", "returncode", "exited"}
        /\ EventTypes \cap {"parse", "parse_failed", "listing", "no_results",
                            "prompt_choice", "prompt_mode", "autoplay",
                            "clear", "now_playing", "mpv"} = {}
        /\ active = NoChildren
        /\ (pc = "exited" /\ sigints = 0) =>
              /\ exitStatus = proc.rc
              /\ "yt_failed" \in EventTypes
              /\ events[Len(events)].t =
                    (IF proc.err # "" THEN "stderr" ELSE "yt_failed")

C5_Witness ==
    /\ pc = "exited"
    /\ proc.rc = 2
    /\ exitStatus = 2
    /\ proc.out.json
    /\ events[Len(events)].t = "stderr"

\* the tools a command uses: yt-dlp to search, mpv to play
UsesYtDlp == cmd \in {"interactive", "quick", "search", "play_search"}
UsesMpv == cmd \in {"interactive", "quick", "play_search", "play_url"}

UsedToolMissing == (UsesYtDlp /\ ~hasYtDlp) \/ (UsesMpv /\ ~hasMpv)

\* C6: when a tool the command uses is not on the PATH, no child process is
\* launched and no prompt is shown, and the program ends with status 1 after
\* the guidance text.
C6_MissingToolFirst ==
    UsedToolMissing =>
        /\ EventTypes \cap {"ytdlp", "mpv", "clear", "prompt_query",
                            "prompt_choice", "prompt_mode"} = {}
        /\ (pc \in {"done", "exited"} /\ sigints = 0) =>
              /\ pc = "exited"
              /\ exitStatus = 1
              /\ events[Len(events)].t = "missing_tool"

\* C4: a SIGINT delivered after the handler is installed ends the program:
\* farewell printed last, exit status 0, nothing launched afterwards.
C4_InterruptEndsProgram ==
    sigints > 0 =>
        /\ pc = "exited"
        /\ exitStatus = 0
        /\ events[Len(events)].t = "farewell"

\* C8: whenever the primary thread is anywhere but blocked in communicate()
\* or join(), no indicator thread is running.
C8_IndicatorJoined ==
    spinner \in {"test", "paint"} => pc \in {"communicate", "join"}

====
